---- MODULE Spec2Model ----
(***************************************************************************)
(* Workflow and agent orchestration core of universal-claude-workflow.     *)
(*                                                                         *)
(*   SubagentOrchestrator (src/src/analytics.js, lines 527-943) runs a     *)
(*   collaboration plan phase by phase; a phase runs its agent tasks       *)
(*   concurrently (Promise.all) or as a pipeline.                          *)
(*   WorkflowEngine (src/unnamed/part_003) runs a workflow stage by stage  *)
(*   with pre-flight and post-flight checks and persists the record.       *)
(*                                                                         *)
(* The two classes share no state, so each has its own specification over  *)
(* its own variables: Spec (orchestrator) and WfSpec (workflow engine).    *)
(***************************************************************************)
EXTENDS Naturals, Sequences, FiniteSets, TLC

VARIABLES
  agentTeam,       \* the team handed to executeOrchestration
  plan,            \* the CollaborationPlan handed to executeOrchestration: plan.phases
  opc,             \* where orchestrateTask / executeOrchestration stands
  phaseIdx,        \* the loop variable i of executeOrchestration, counted from 1
  execution,       \* the local `execution` record of executeOrchestration, Null when out of scope
  phaseExecution,  \* the local `phaseExecution` of executePhase, Null when out of scope
  taskState,       \* per agent task of the running phase: the state of its promise
  seqPos,          \* position of the for..of loop of executePhaseSequential, from 1
  previousResult,  \* the local `previousResult` of executePhaseSequential
  outcome,         \* how the promise of orchestrateTask settled
  agentHistory,    \* SubagentOrchestrator.agentHistory
  startLog,        \* history: <<phase, position>> of every agent.executeTask call, in call order
  validated,       \* history: the phases whose validatePhaseResult has returned
  hookCalls,       \* history: the failures handed to handleAgentFailures, one entry per call
  thrown,          \* the error propagating out of executePhase, Null when none is in flight
  result           \* the local `result` of orchestrateTask, Null until executeOrchestration returns

orchVars == <<agentTeam, plan, opc, phaseIdx, execution, phaseExecution, taskState, seqPos,
              previousResult, outcome, agentHistory, startLog, validated, hookCalls,
              thrown, result>>

VARIABLES
  wpc,             \* where startWorkflow / executeWorkflow stands
  heap,            \* the workflow objects created so far, by workflow id
  currentWorkflow, \* WorkflowEngine.currentWorkflow: a workflow id, 0 for null
  workflowHistory, \* WorkflowEngine.workflowHistory: workflow ids (references)
  persisted,       \* the files .ucw/workflows/<id>.json: the record written, by id
  checksLeft,      \* checks of the running pre-/post-flight loop still to execute
  wfOutcome,       \* how the promise of the last startWorkflow settled
  stageIdx,        \* the loop variable i of executeWorkflow, counted from 0
  wfEvents,        \* history: the events emitted by the engine, in order
  wfLog            \* history of the running workflow: stages entered, stages executed,
                   \* stages with a failed pre-flight check, stages whose execution
                   \* threw, stages with a post-flight warning

wfVars == <<wpc, heap, currentWorkflow, workflowHistory, persisted, checksLeft,
            wfOutcome, stageIdx, wfEvents, wfLog>>

VARIABLES
  registeredAgents, \* SubagentOrchestrator.registeredAgents: Map from agent id to agent
  regCalls,         \* the registerAgent calls made so far, each with its agent and state
  listeners,        \* the agents the orchestrator's handlers were attached to, one
                    \* entry per registration, in the order of the registrations
  emitted           \* history: the 'conflictResolved' events the orchestrator emitted

regVars == <<registeredAgents, regCalls, listeners, emitted>>

VARIABLES
  task,            \* the task handed to orchestrateTask
  team,            \* the local `team` of selectAgentTeam: the argument of optimizeTeamComposition
  entry,           \* the method the run was entered by: where a repeated run starts
  planLog          \* history: every createPlan call with its options and the plan returned

selVars == <<task, team, entry, planLog>>

VARIABLES
  calls            \* overlapping orchestrateTask calls on one orchestrator, by call

ovVars == <<calls>>

VARIABLES
  present,         \* the files that exist in the project root
  detected         \* what detectPackageManager returned, Pending before it has

pmVars == <<present, detected>>

VARIABLES
  execs            \* per agent task of the running phase whose performTask has settled:
                   \* how performTask settled, the 'taskCompleted' events executeTask
                   \* emitted, and how executeTask settles

emVars == <<execs>>

VARIABLES
  initialized,     \* SubagentOrchestrator.initialized
  initCalls        \* the initialize calls made so far, each with its state

initVars == <<initialized, initCalls>>

\* The project detector, one executeTask call and the orchestrator's initialize.
extVars == <<pmVars, emVars, initVars>>

\* Everything but the orchestration run, and everything but the workflow engine.
nonOrchVars == <<wfVars, regVars, selVars, ovVars, extVars>>

nonWfVars == <<orchVars, regVars, selVars, ovVars, extVars>>

vars == <<orchVars, wfVars, regVars, selVars, ovVars, extVars>>

Null == [none |-> TRUE]

(***************************************************************************)
(* Bounds of the model.                                                    *)
(***************************************************************************)
MaxTasks == 3
MaxPhases == 2
MaxChecks == 2
MaxWorkflows == 2

(***************************************************************************)
(* Agents, tasks, phases.                                                  *)
(***************************************************************************)

\* The team executeOrchestration is handed when it is run on the plans of Plans:
\* three of the core agents.
AgentTeam ==
  << [id |-> "architecture_1", name |-> "Architect", specialization |-> "architecture"],
     [id |-> "coding_1",       name |-> "Coder",     specialization |-> "coding"],
     [id |-> "code-review_1",  name |-> "Reviewer",  specialization |-> "code-review"] >>

TeamIds == {AgentTeam[n].id : n \in 1..Len(AgentTeam)}

\* A registered agent that is not a member of the team.
Outsider == "testing_1"

AllIds == TeamIds \cup {Outsider}

\* The messages an agent's performTask may throw with.
Causes == {"timeout", "crash"}

Undefined == [undefined |-> TRUE]

\* agentTeam.find(a => a.id === agentTask.agentId)
FindAgent(id) ==
  IF \E n \in 1..Len(agentTeam) : agentTeam[n].id = id
  THEN agentTeam[CHOOSE n \in 1..Len(agentTeam) :
                   /\ agentTeam[n].id = id
                   /\ \A m \in 1..(n-1) : agentTeam[m].id # id]
  ELSE Undefined

\* A JS Map as the sequence of its [key, value] entries in insertion order.
MapHas(m, k) == \E n \in 1..Len(m) : m[n].key = k

MapGet(m, k) == m[CHOOSE n \in 1..Len(m) : m[n].key = k].value

\* Map.prototype.set: a new key is appended, a present key keeps its place.
MapSet(m, k, v) ==
  IF MapHas(m, k)
  THEN [n \in 1..Len(m) |-> IF m[n].key = k THEN [key |-> k, value |-> v] ELSE m[n]]
  ELSE Append(m, [key |-> k, value |-> v])

MapKeys(m) == [n \in 1..Len(m) |-> m[n].key]

\* performTask is each agent's own unit of work. Its result names the artifact
\* the agent modified: the architect its design document, every other agent
\* the same source file.
ArtifactOf(id) == IF id = "architecture_1" THEN "design.md" ELSE "app.js"

\* What BaseAgent.executeTask returns when performTask returned.
TaskResult(id) == [success |-> TRUE, result |-> [by |-> id, artifact |-> ArtifactOf(id)]]

\* The entry a failed agent gets: { error: error.message }.
ErrorEntry(cause) == [error |-> cause]

IsErrorEntry(e) == "error" \in DOMAIN e

\* new Error(`Agent ${agentTask.agentId} not found in team`)
AgentNotFound(id) == [type |-> "AgentNotFound", agentId |-> id]

\* new Error(`Sequential execution failed at agent ${agent.name}: ${error.message}`)
SequentialFailed(name, cause) == [type |-> "SequentialFailed", agent |-> name, cause |-> cause]

\* The failure of fs.writeJSON.
WriteFailed == [type |-> "WriteFailed"]

Task(id, uses) == [agentId |-> id, usesPreviousResult |-> uses]

Phase(name, mode, tasks, validate) ==
  [name |-> name, executionMode |-> mode, agentTasks |-> tasks, requiresValidation |-> validate]

SeqsUpTo(S, n) == UNION {[1..m -> S] : m \in 0..n}

\* Every phase of up to MaxTasks agent tasks over the team and the outsider; a
\* parallel phase never reads usesPreviousResult, so it is left unset there.
RichTasks(mode) ==
  IF mode = "parallel"
  THEN SeqsUpTo({Task(id, FALSE) : id \in AllIds}, MaxTasks)
  ELSE SeqsUpTo({Task(id, u) : id \in AllIds, u \in BOOLEAN}, MaxTasks)

\* The first n team members, each later pipeline step using its predecessor's result.
TeamTasks(n, mode) ==
  [k \in 1..n |-> Task(AgentTeam[k].id, mode = "sequential" /\ k > 1)]

\* Task lists for the phases of plans of several phases.
StepTasks(mode) ==
  { TeamTasks(1, mode),
    TeamTasks(IF mode = "parallel" THEN 2 ELSE Len(AgentTeam), mode),
    Append(TeamTasks(1, mode), Task(Outsider, FALSE)) }

Modes == {"parallel", "sequential"}

RichPhases ==
  UNION { {Phase(1, mode, ts, v) : ts \in RichTasks(mode), v \in BOOLEAN} : mode \in Modes }

StepPhases ==
  UNION { {Phase(1, mode, ts, v) : ts \in StepTasks(mode), v \in BOOLEAN} : mode \in Modes }

\* plan.phases with the phases named by their place in the plan.
Named(phases) == [j \in 1..Len(phases) |-> [phases[j] EXCEPT !.name = j]]

\* Plans of two pipeline phases, every task of the second one, its first
\* included, marked as using the previous result.
HandoverPlans ==
  { Named(<< Phase(1, "sequential", TeamTasks(1, "sequential"), v),
             Phase(2, "sequential",
                   << Task(AgentTeam[2].id, TRUE), Task(AgentTeam[3].id, TRUE) >>, FALSE) >>) :
      v \in BOOLEAN }

\* The plans executeOrchestration is run on: the plan without phases, every plan
\* of one phase, plans of up to MaxPhases phases built from StepPhases, and the
\* plans of HandoverPlans.
Plans ==
  {<< >>}
    \cup { <<p>> : p \in RichPhases }
    \cup { Named(ps) : ps \in UNION {[1..n -> StepPhases] : n \in 2..MaxPhases} }
    \cup HandoverPlans

(***************************************************************************)
(* SubagentOrchestrator: orchestrateTask and executeOrchestration.         *)
(***************************************************************************)

\* A field of an object read as a condition: an absent field is undefined, hence false.
Truthy(obj, field) == field \in DOMAIN obj /\ obj[field]

Pending == [st |-> "pending"]
Running == [st |-> "running"]
Fulfilled(ret) == [st |-> "fulfilled", ret |-> ret]
Rejected(err) == [st |-> "rejected", err |-> err]

CurPhase == plan[phaseIdx]

NumTasks == Len(CurPhase.agentTasks)

OrchInit(plans) ==
  /\ agentTeam = AgentTeam
  /\ plan \in plans
  /\ opc = "start"
  /\ phaseIdx = 1
  /\ execution = Null
  /\ phaseExecution = Null
  /\ taskState = << >>
  /\ seqPos = 1
  /\ previousResult = Null
  /\ outcome = [st |-> "pending"]
  /\ agentHistory = << >>
  /\ startLog = << >>
  /\ validated = << >>
  /\ hookCalls = << >>
  /\ thrown = Null
  /\ result = Null

\* executeOrchestration, lines 681-689: the fresh execution record.
NewExecution ==
  [agents |-> [n \in 1..Len(agentTeam) |-> agentTeam[n].id],
   phases |-> << >>, conflicts |-> << >>, collaborations |-> << >>,
   result |-> Null, error |-> Null]

\* executePhase, lines 723-729: the fresh phaseExecution record.
NewPhaseExecution(phase) ==
  [name |-> phase.name, agentResults |-> << >>, conflicts |-> << >>,
   collaborations |-> << >>, completed |-> FALSE]

\* orchestrateTask calls executeOrchestration (team and plan are built).
ExecuteOrchestration ==
  /\ opc = "start"
  /\ execution' = NewExecution
  /\ opc' = "loop"
  /\ UNCHANGED <<nonOrchVars, agentTeam, plan, phaseIdx, phaseExecution, taskState, seqPos, previousResult,
                 outcome, agentHistory, startLog, validated, hookCalls, thrown, result>>

\* The map callback of executePhaseParallel up to its first await, for task k:
\* a missing agent rejects the callback's promise, a found one starts executeTask.
ParallelCallback(phase, k) ==
  IF FindAgent(phase.agentTasks[k].agentId) = Undefined
  THEN Rejected(AgentNotFound(phase.agentTasks[k].agentId))
  ELSE Running

\* executePhase entered for a parallel phase: phase.agentTasks.map(...) runs every
\* callback to its first await, then Promise.all is awaited.
ExecutePhaseParallel ==
  /\ opc = "loop"
  /\ phaseIdx <= Len(plan)
  /\ CurPhase.executionMode = "parallel"
  /\ phaseExecution' = NewPhaseExecution(CurPhase)
  /\ taskState' = [k \in 1..NumTasks |-> ParallelCallback(CurPhase, k)]
  /\ startLog' = startLog \o
       SelectSeq([k \in 1..NumTasks |-> <<phaseIdx, k>>],
                 LAMBDA e : ParallelCallback(CurPhase, e[2]) = Running)
  /\ opc' = "parallel"
  /\ UNCHANGED <<nonOrchVars, agentTeam, plan, phaseIdx, execution, seqPos, previousResult, outcome,
                 agentHistory, validated, hookCalls, thrown, result>>

\* What the map callback of executePhaseParallel returns once executeTask settled.
ParallelReturn(id, out) ==
  IF out = "ok"
  THEN [agentId |-> id, success |-> TRUE, result |-> TaskResult(id)]
  ELSE [agentId |-> id, success |-> FALSE, error |-> out]

\* Mutant of ParallelEntry: the catch stores a result where the error belongs.
ParallelEntryDropsError(id, out) == TaskResult(id)

\* The entry the map callback stores in phaseExecution.agentResults.
ParallelEntry(id, out) ==
  IF out = "ok" THEN TaskResult(id) ELSE ErrorEntry(out)

\* agent.executeTask of parallel task k settles: its callback records the result
\* or the error and fulfils. The callback outlives a rejected Promise.all; by
\* then the phaseExecution it writes to is out of everyone's reach.
ParallelSettle(k, out) ==
  /\ phaseIdx <= Len(plan)
  /\ CurPhase.executionMode = "parallel"
  /\ taskState[k] = Running
  /\ LET id == FindAgent(CurPhase.agentTasks[k].agentId).id IN
       /\ taskState' = [taskState EXCEPT ![k] = Fulfilled(ParallelReturn(id, out))]
       /\ phaseExecution' =
            IF phaseExecution = Null THEN Null
            ELSE [phaseExecution EXCEPT
                    !.agentResults = MapSet(@, id, ParallelEntry(id, out))]
  /\ UNCHANGED <<nonOrchVars, agentTeam, plan, opc, phaseIdx, execution, seqPos, previousResult, outcome,
                 agentHistory, startLog, validated, hookCalls, thrown, result>>

\* Mutant of Failures: the results are handed on unfiltered.
FailuresUnfiltered(ts) == [k \in 1..Len(ts) |-> ts[k].ret]

\* results.filter(r => !r.success)
Failures(ts) ==
  LET rets == [k \in 1..Len(ts) |-> ts[k].ret] IN
  SelectSeq(rets, LAMBDA r : ~r.success)

\* Mutant of RecordPhase: the loop goes on without awaiting validatePhaseResult.
RecordPhaseSkipsValidation ==
  /\ execution' = [execution EXCEPT
                     !.phases = Append(@, [phaseExecution EXCEPT !.completed = TRUE])]
  /\ phaseExecution' = Null
  /\ taskState' = << >>
  /\ opc' = "loop"
  /\ phaseIdx' = phaseIdx + 1

\* executePhase after the mode's executor returned (lines 738-744) and the push
\* of executeOrchestration (line 698): conflicts are resolved when there are any,
\* the record is completed and appended to execution.phases.
RecordPhase ==
  /\ execution' = [execution EXCEPT
                     !.phases = Append(@, [phaseExecution EXCEPT !.completed = TRUE])]
  /\ phaseExecution' = Null
  /\ taskState' = << >>
  /\ IF Truthy(CurPhase, "requiresValidation")
     THEN opc' = "validate" /\ phaseIdx' = phaseIdx
     ELSE opc' = "loop" /\ phaseIdx' = phaseIdx + 1

\* Promise.all fulfils: every callback has fulfilled. Failures go to the hook.
ParallelJoin ==
  /\ opc = "parallel"
  /\ \A k \in 1..Len(taskState) : taskState[k].st = "fulfilled"
  /\ hookCalls' = IF Failures(taskState) # << >>
                  THEN Append(hookCalls, Failures(taskState))
                  ELSE hookCalls
  /\ RecordPhase
  /\ UNCHANGED <<nonOrchVars, agentTeam, plan, seqPos, previousResult, outcome, agentHistory, startLog,
                 validated, thrown, result>>

\* Promise.all rejects with the first rejection: the callback of the first task
\* whose agent is missing. The phase throws while other callbacks still run.
ParallelReject ==
  /\ opc = "parallel"
  /\ \E k \in 1..Len(taskState) :
       /\ taskState[k].st = "rejected"
       /\ \A m \in 1..(k-1) : taskState[m].st # "rejected"
       /\ thrown' = taskState[k].err
  /\ opc' = "phaseThrow"
  /\ UNCHANGED <<nonOrchVars, agentTeam, plan, phaseIdx, execution, phaseExecution, taskState, seqPos,
                 previousResult, outcome, agentHistory, startLog, validated,
                 hookCalls, result>>

\* Mutant of ExecutePhaseSequential: previousResult outlives the phase.
ExecutePhaseSequentialKeepsPrevious ==
  /\ opc = "loop"
  /\ phaseIdx <= Len(plan)
  /\ CurPhase.executionMode # "parallel"
  /\ phaseExecution' = NewPhaseExecution(CurPhase)
  /\ taskState' = [k \in 1..NumTasks |-> Pending]
  /\ seqPos' = 1
  /\ opc' = "sequential"
  /\ UNCHANGED <<nonOrchVars, agentTeam, plan, phaseIdx, execution, outcome, agentHistory, startLog,
                 validated, hookCalls, thrown, result, previousResult>>

\* executePhase entered for a sequential phase (executionMode is not 'parallel'):
\* executePhaseSequential starts with `let previousResult = null` (line 781).
ExecutePhaseSequential ==
  /\ opc = "loop"
  /\ phaseIdx <= Len(plan)
  /\ CurPhase.executionMode # "parallel"
  /\ phaseExecution' = NewPhaseExecution(CurPhase)
  /\ taskState' = [k \in 1..NumTasks |-> Pending]
  /\ seqPos' = 1
  /\ previousResult' = Null
  /\ opc' = "sequential"
  /\ UNCHANGED <<nonOrchVars, agentTeam, plan, phaseIdx, execution, outcome, agentHistory, startLog,
                 validated, hookCalls, thrown, result>>

\* One turn of the for..of loop up to its await (lines 783-797): the agent is
\* looked up; a missing agent throws out of the phase, a found one is started.
SequentialStep ==
  /\ opc = "sequential"
  /\ seqPos <= NumTasks
  /\ LET id == CurPhase.agentTasks[seqPos].agentId IN
       IF FindAgent(id) = Undefined
       THEN /\ thrown' = AgentNotFound(id)
            /\ opc' = "phaseThrow"
            /\ UNCHANGED <<taskState, startLog>>
       ELSE /\ taskState' = [taskState EXCEPT ![seqPos] = Running]
            /\ startLog' = Append(startLog, <<phaseIdx, seqPos>>)
            /\ opc' = "seqAwait"
            /\ UNCHANGED thrown
  /\ UNCHANGED <<nonOrchVars, agentTeam, plan, phaseIdx, execution, phaseExecution, seqPos, previousResult,
                 outcome, agentHistory, validated, hookCalls, result>>

\* phase.agentTasks[phase.agentTasks.indexOf(agentTask) - 1]?.agentId
HandoffFrom(phase, k) ==
  IF k > 1 THEN phase.agentTasks[k - 1].agentId ELSE Undefined

\* Lines 798-809 for task k of `phase`: the result is stored and becomes
\* previousResult before the handoff test reads previousResult.
AfterSequentialSuccess(pe, phase, k) ==
  LET id == FindAgent(phase.agentTasks[k].agentId).id
      res == TaskResult(id)
      stored == [pe EXCEPT !.agentResults = MapSet(@, id, res)]
      newPrevious == res
  IN IF newPrevious # Null /\ phase.agentTasks[k].usesPreviousResult
     THEN [stored EXCEPT !.collaborations =
             Append(@, [type |-> "sequential_handoff",
                        from |-> HandoffFrom(phase, k), to |-> id])]
     ELSE stored

\* Mutant of AfterSequentialFailure: the catch throws without storing the entry.
AfterSequentialFailureStoresNothing(pe, phase, k, cause) == pe

\* Lines 811-814: the error entry stored for the failing agent.
AfterSequentialFailure(pe, phase, k, cause) ==
  LET id == FindAgent(phase.agentTasks[k].agentId).id IN
  [pe EXCEPT !.agentResults = MapSet(@, id, ErrorEntry(cause))]

\* The awaited executeTask of the running pipeline task settles.
SequentialSettle(out) ==
  /\ opc = "seqAwait"
  /\ taskState[seqPos] = Running
  /\ LET agent == FindAgent(CurPhase.agentTasks[seqPos].agentId) IN
       IF out = "ok"
       THEN /\ phaseExecution' = AfterSequentialSuccess(phaseExecution, CurPhase, seqPos)
            /\ previousResult' = TaskResult(agent.id)
            /\ taskState' = [taskState EXCEPT ![seqPos] = Fulfilled(TaskResult(agent.id))]
            /\ seqPos' = seqPos + 1
            /\ opc' = "sequential"
            /\ UNCHANGED thrown
       ELSE /\ phaseExecution' = AfterSequentialFailure(phaseExecution, CurPhase, seqPos, out)
            /\ taskState' = [taskState EXCEPT ![seqPos] = Rejected(out)]
            /\ thrown' = SequentialFailed(agent.name, out)
            /\ opc' = "phaseThrow"
            /\ UNCHANGED <<previousResult, seqPos>>
  /\ UNCHANGED <<nonOrchVars, agentTeam, plan, phaseIdx, execution, outcome, agentHistory, startLog,
                 validated, hookCalls, result>>

\* The for..of loop has run out: executePhaseSequential returns.
SequentialDone ==
  /\ opc = "sequential"
  /\ seqPos > NumTasks
  /\ RecordPhase
  /\ UNCHANGED <<nonOrchVars, agentTeam, plan, seqPos, previousResult, outcome, agentHistory, startLog,
                 validated, hookCalls, thrown, result>>

\* validatePhaseResult (line 932) returns { valid: true }; the loop goes on.
ValidatePhaseResult ==
  /\ opc = "validate"
  /\ validated' = Append(validated, phaseIdx)
  /\ phaseIdx' = phaseIdx + 1
  /\ opc' = "loop"
  /\ UNCHANGED <<nonOrchVars, agentTeam, plan, execution, phaseExecution, taskState, seqPos, previousResult,
                 outcome, agentHistory, startLog, hookCalls, thrown, result>>

\* Mutant of compileOrchestrationResult: the agents are counted as phases.
CompileOrchestrationResultCountsAgents(ex) == [success |-> TRUE, phases |-> Len(ex.agents)]

\* compileOrchestrationResult, lines 933-939.
CompileOrchestrationResult(ex) == [success |-> TRUE, phases |-> Len(ex.phases)]

\* The loop of executeOrchestration has run out (lines 706-710): the result is
\* compiled into the record and returned; the record goes out of scope.
OrchestrationReturn ==
  /\ opc = "loop"
  /\ phaseIdx > Len(plan)
  /\ result' = CompileOrchestrationResult(execution)
  /\ execution' = Null
  /\ opc' = "insights"
  /\ UNCHANGED <<nonOrchVars, agentTeam, plan, phaseIdx, phaseExecution, taskState, seqPos, previousResult,
                 outcome, agentHistory, startLog, validated, hookCalls, thrown>>

\* The catch of executeOrchestration (lines 712-716): the message is recorded
\* in the execution record and the error is thrown on.
CatchOrchestration ==
  /\ opc = "phaseThrow"
  /\ execution' = [execution EXCEPT !.error = thrown]
  /\ phaseExecution' = Null
  /\ opc' = "catch"
  /\ UNCHANGED <<nonOrchVars, agentTeam, plan, phaseIdx, taskState, seqPos, previousResult, outcome,
                 agentHistory, startLog, validated, hookCalls, thrown, result>>

\* The catch of orchestrateTask (lines 625-628) rethrows: the call rejects.
\* Nothing the orchestrator keeps refers to the execution record.
OrchestrateTaskRejects ==
  /\ opc = "catch"
  /\ outcome' = [st |-> "rejected", error |-> thrown]
  /\ execution' = Null
  /\ thrown' = Null
  /\ opc' = "rejected"
  /\ UNCHANGED <<nonOrchVars, agentTeam, plan, phaseIdx, phaseExecution, taskState, seqPos, previousResult,
                 agentHistory, startLog, validated, hookCalls, result>>

\* recordOrchestrationInsights (lines 913-929): the insight is pushed, then the
\* history file is written; a failed write rejects orchestrateTask.
RecordOrchestrationInsights(writeOk) ==
  /\ opc = "insights"
  /\ agentHistory' = Append(agentHistory, [success |-> result.success])
  /\ IF writeOk
     THEN outcome' = [st |-> "resolved", result |-> result] /\ opc' = "resolved"
     ELSE outcome' = [st |-> "rejected", error |-> WriteFailed] /\ opc' = "rejected"
  /\ UNCHANGED <<nonOrchVars, agentTeam, plan, phaseIdx, execution, phaseExecution, taskState, seqPos,
                 previousResult, startLog, validated, hookCalls, thrown, result>>

Outcomes == {"ok"} \cup Causes

OrchNext ==
  \/ ExecuteOrchestration
  \/ ExecutePhaseParallel
  \/ \E k \in DOMAIN taskState, out \in Outcomes : ParallelSettle(k, out)
  \/ ParallelJoin
  \/ ParallelReject
  \/ ExecutePhaseSequential
  \/ SequentialStep
  \/ \E out \in Outcomes : SequentialSettle(out)
  \/ SequentialDone
  \/ ValidatePhaseResult
  \/ OrchestrationReturn
  \/ CatchOrchestration
  \/ OrchestrateTaskRejects
  \/ \E writeOk \in BOOLEAN : RecordOrchestrationInsights(writeOk)

(***************************************************************************)
(* WorkflowEngine: startWorkflow and executeWorkflow.                      *)
(***************************************************************************)

\* WorkflowPlanGenerator.generate: the five stages of every plan.
StockStages == <<"Analysis", "Planning", "Implementation", "Testing", "Review">>

NewStage(name) == [name |-> name, result |-> Null]

\* StageExecutor.execute, lines 365-369.
StageResult == [success |-> TRUE, metrics |-> [linesChanged |-> 0, testsAdded |-> 0]]

\* new Error(`Pre-flight check failed: ${result.message}`)
PreFlightFailed == [type |-> "PreFlightFailed"]

\* What a throwing StageExecutor.execute throws.
StageFailed == [type |-> "StageFailed"]

\* What a throwing WorkflowPlanGenerator.generate throws.
PlanFailed == [type |-> "PlanFailed"]

\* startWorkflow, lines 83-94.
NewWorkflow(id) ==
  [id |-> id, stages |-> << >>, currentStage |-> 0, status |-> "active",
   insights |-> << >>, error |-> Null]

EmptyLog ==
  [entered |-> << >>, executed |-> << >>, preFailed |-> {}, threw |-> {}, warned |-> {}]

WfInit ==
  /\ wpc = "idle"
  /\ heap = << >>
  /\ currentWorkflow = 0
  /\ workflowHistory = << >>
  /\ persisted = << >>
  /\ checksLeft = 0
  /\ wfOutcome = [st |-> "none"]
  /\ stageIdx = 0
  /\ wfEvents = << >>
  /\ wfLog = EmptyLog

Workflow == heap[currentWorkflow]

HasWorkflow == currentWorkflow # 0

\* generateWorkflowId: an id no earlier workflow has.
GenerateWorkflowId == Len(heap) + 1

\* startWorkflow up to the await of generateWorkflowPlan (lines 83-102).
StartWorkflow ==
  /\ wpc \in {"idle", "resolved", "rejected"}
  /\ Len(heap) < MaxWorkflows
  /\ heap' = Append(heap, NewWorkflow(GenerateWorkflowId))
  /\ currentWorkflow' = GenerateWorkflowId
  /\ wfEvents' = Append(wfEvents, <<"workflowStarted", GenerateWorkflowId>>)
  /\ wfOutcome' = [st |-> "pending"]
  /\ wfLog' = EmptyLog
  /\ stageIdx' = 0
  /\ checksLeft' = 0
  /\ wpc' = "plan"
  /\ UNCHANGED <<nonWfVars, workflowHistory, persisted>>

\* generateWorkflowPlan settles (lines 102-106): the stages are stored and
\* executeWorkflow is entered, or the error leaves startWorkflow at once.
GenerateWorkflowPlan(ok) ==
  /\ wpc = "plan"
  /\ IF ok
     THEN /\ heap' = [heap EXCEPT ![currentWorkflow].stages =
                        [n \in 1..Len(StockStages) |-> NewStage(StockStages[n])]]
          /\ wpc' = "loop"
          /\ UNCHANGED wfOutcome
     ELSE /\ wfOutcome' = [st |-> "rejected", error |-> PlanFailed]
          /\ wpc' = "rejected"
          /\ UNCHANGED heap
  /\ UNCHANGED <<nonWfVars, currentWorkflow, workflowHistory, persisted, checksLeft,
                 stageIdx, wfEvents, wfLog>>

\* The catch of executeWorkflow (lines 162-167); startWorkflow rejects with it.
FailWorkflow(err) ==
  /\ heap' = [heap EXCEPT ![currentWorkflow].status = "failed",
                          ![currentWorkflow].error = err]
  /\ wfOutcome' = [st |-> "rejected", error |-> err]
  /\ wpc' = "rejected"

\* The head of the stage loop (lines 134-141): the stage is entered and its
\* pre-flight checks are fetched, `checks` of them.
StageBegin(checks) ==
  /\ wpc = "loop"
  /\ stageIdx < Len(Workflow.stages)
  /\ heap' = [heap EXCEPT ![currentWorkflow].currentStage = stageIdx]
  /\ wfLog' = [wfLog EXCEPT !.entered = Append(@, stageIdx)]
  /\ checksLeft' = checks
  /\ wpc' = "preflight"
  /\ UNCHANGED <<nonWfVars, currentWorkflow, workflowHistory, persisted, wfOutcome,
                 stageIdx, wfEvents>>

\* Mutant of PreFlightCheck: a check that does not pass is only warned about.
PreFlightCheckWarnsOnly(passed) ==
  /\ wpc = "preflight"
  /\ checksLeft > 0
  /\ checksLeft' = checksLeft - 1
  /\ wfLog' = IF passed THEN wfLog ELSE [wfLog EXCEPT !.preFailed = @ \cup {stageIdx}]
  /\ UNCHANGED <<nonWfVars, heap, currentWorkflow, workflowHistory, persisted, wfOutcome,
                 wpc, stageIdx, wfEvents>>

\* executePreFlightCheck: the next check is executed; one that does not pass throws.
PreFlightCheck(passed) ==
  /\ wpc = "preflight"
  /\ checksLeft > 0
  /\ IF passed
     THEN /\ checksLeft' = checksLeft - 1
          /\ UNCHANGED <<heap, wfOutcome, wpc, wfLog>>
     ELSE /\ wfLog' = [wfLog EXCEPT !.preFailed = @ \cup {stageIdx}]
          /\ FailWorkflow(PreFlightFailed)
          /\ UNCHANGED checksLeft
  /\ UNCHANGED <<nonWfVars, currentWorkflow, workflowHistory, persisted, stageIdx, wfEvents>>

\* executeStage (lines 144-149): the result is stored in the stage and the
\* post-flight checks are fetched, or the executor's exception fails the workflow.
ExecuteStage(ok, checks) ==
  /\ wpc = "preflight"
  /\ checksLeft = 0
  /\ wfLog' = [wfLog EXCEPT !.executed = Append(@, stageIdx),
                             !.threw = IF ok THEN @ ELSE @ \cup {stageIdx}]
  /\ IF ok
     THEN /\ heap' = [heap EXCEPT ![currentWorkflow].stages[stageIdx + 1].result = StageResult]
          /\ checksLeft' = checks
          /\ wpc' = "postflight"
          /\ UNCHANGED wfOutcome
     ELSE /\ FailWorkflow(StageFailed)
          /\ UNCHANGED checksLeft
  /\ UNCHANGED <<nonWfVars, currentWorkflow, workflowHistory, persisted, stageIdx, wfEvents>>

\* Mutant of PostFlightCheck: a check that does not pass throws.
PostFlightCheckThrows(passed) ==
  /\ wpc = "postflight"
  /\ checksLeft > 0
  /\ IF passed
     THEN /\ checksLeft' = checksLeft - 1
          /\ UNCHANGED <<heap, wfOutcome, wpc, wfLog>>
     ELSE /\ wfLog' = [wfLog EXCEPT !.warned = @ \cup {stageIdx}]
          /\ FailWorkflow(PreFlightFailed)
          /\ UNCHANGED checksLeft
  /\ UNCHANGED <<nonWfVars, currentWorkflow, workflowHistory, persisted, stageIdx, wfEvents>>

\* executePostFlightCheck: the next check is executed; one that does not pass is
\* warned about and the loop goes on.
PostFlightCheck(passed) ==
  /\ wpc = "postflight"
  /\ checksLeft > 0
  /\ checksLeft' = checksLeft - 1
  /\ wfLog' = IF passed THEN wfLog ELSE [wfLog EXCEPT !.warned = @ \cup {stageIdx}]
  /\ UNCHANGED <<nonWfVars, heap, currentWorkflow, workflowHistory, persisted, wfOutcome,
                 wpc, stageIdx, wfEvents>>

\* Mutant of RecordStageInsights: the list is replaced by the newest insight.
RecordStageInsightsOverwrites(wf, stage) ==
  [wf EXCEPT !.insights =
     <<[stage |-> stage.name, type |-> "execution",
        data |-> [success |-> stage.result.success]]>>]

\* recordStageInsights, lines 275-283.
RecordStageInsights(wf, stage) ==
  [wf EXCEPT !.insights =
     Append(@, [stage |-> stage.name, type |-> "execution",
                data |-> [success |-> stage.result.success]])]

\* The end of a loop turn (lines 152-154): the insight is recorded and
\* stageCompleted is emitted.
CompleteStage ==
  /\ wpc = "postflight"
  /\ checksLeft = 0
  /\ heap' = [heap EXCEPT ![currentWorkflow] =
                RecordStageInsights(@, @.stages[stageIdx + 1])]
  /\ wfEvents' = Append(wfEvents, <<"stageCompleted", currentWorkflow, stageIdx>>)
  /\ stageIdx' = stageIdx + 1
  /\ wpc' = "loop"
  /\ UNCHANGED <<nonWfVars, currentWorkflow, workflowHistory, persisted, checksLeft,
                 wfOutcome, wfLog>>

\* The stage loop has run out (lines 157-158).
CompleteWorkflow ==
  /\ wpc = "loop"
  /\ stageIdx >= Len(Workflow.stages)
  /\ heap' = [heap EXCEPT ![currentWorkflow].status = "completed"]
  /\ wpc' = "finalize"
  /\ UNCHANGED <<nonWfVars, currentWorkflow, workflowHistory, persisted, checksLeft,
                 wfOutcome, stageIdx, wfEvents, wfLog>>

\* Mutant of WriteWorkflow: every record goes to the same file.
WriteWorkflowFixedName(files, wf) == [id \in {1} |-> wf]

\* fs.writeJSON(workflowFile, workflow): the file named by the id holds the record.
WriteWorkflow(files, wf) ==
  [id \in (DOMAIN files) \cup {wf.id} |-> IF id = wf.id THEN wf ELSE files[id]]

\* finalizeWorkflow (lines 285-296): the workflow joins the history, then its
\* record is written; a failed write is caught by executeWorkflow.
FinalizeWorkflow(writeOk) ==
  /\ wpc = "finalize"
  /\ workflowHistory' = Append(workflowHistory, currentWorkflow)
  /\ IF writeOk
     THEN /\ persisted' = WriteWorkflow(persisted, Workflow)
          /\ wfOutcome' = [st |-> "resolved", workflow |-> currentWorkflow]
          /\ wpc' = "resolved"
          /\ UNCHANGED heap
     ELSE /\ FailWorkflow(WriteFailed)
          /\ UNCHANGED persisted
  /\ UNCHANGED <<nonWfVars, currentWorkflow, checksLeft, stageIdx, wfEvents, wfLog>>

ChecksCounts == 0..MaxChecks

WfNext ==
  \/ StartWorkflow
  \/ \E ok \in BOOLEAN : GenerateWorkflowPlan(ok)
  \/ \E checks \in ChecksCounts : StageBegin(checks)
  \/ \E passed \in BOOLEAN : PreFlightCheck(passed)
  \/ \E ok \in BOOLEAN, checks \in ChecksCounts : ExecuteStage(ok, checks)
  \/ \E passed \in BOOLEAN : PostFlightCheck(passed)
  \/ CompleteStage
  \/ CompleteWorkflow
  \/ \E writeOk \in BOOLEAN : FinalizeWorkflow(writeOk)

\* Outside an orchestrateTask run: no task, no team, no plan made.
SelInit ==
  /\ task = Null
  /\ team = << >>
  /\ entry = "none"
  /\ planLog = << >>

\* No overlapping calls.
OvInit == calls = << >>

\* detectPackageManager has not been called.
PmIdle == present = {} /\ detected = Pending

\* No performTask has settled.
EmInit == execs = << >>

\* The orchestrator as constructed (line 537) with no initialize call made.
InInit == initialized = FALSE /\ initCalls = << >>

\* The project detector, executeTask's events and initialize at rest.
ExtInit == PmIdle /\ EmInit /\ InInit

(***************************************************************************)
(* The agent registry: registerAgent and the handlers it attaches.         *)
(***************************************************************************)
MaxCalls == 3
MaxConflicts == 2

nonRegVars == <<orchVars, wfVars, selVars, ovVars, extVars>>

\* BaseAgent's constructor (lines 984-992): the id is the specialization and the
\* millisecond of the construction. `inst` tells apart two objects constructed
\* with the same specialization in the same millisecond.
BaseAgent(name, specialization, now, inst) ==
  [id |-> specialization \o "_" \o ToString(now), name |-> name,
   specialization |-> specialization, inst |-> inst]

\* The agents handed to registerAgent: two architects constructed in the same
\* millisecond, and two coders constructed one after the other.
RegPool ==
  { BaseAgent("Architect", "architecture", 1, 1),
    BaseAgent("Architect", "architecture", 1, 2),
    BaseAgent("Coder", "coding", 1, 1),
    BaseAgent("Coder", "coding", 2, 1) }

\* new Error(`Agent ${agent.id} already registered`)
AlreadyRegistered(id) == [type |-> "AlreadyRegistered", agentId |-> id]

\* A registry in which `agents` were registered one after the other.
RegistryOf(agents) == [n \in 1..Len(agents) |-> [key |-> agents[n].id, value |-> agents[n]]]

RegInit(registries) ==
  /\ registeredAgents \in registries
  /\ regCalls = [n \in 1..Len(registeredAgents) |->
                   [agent |-> registeredAgents[n].value, st |-> "registered"]]
  /\ listeners = [n \in 1..Len(registeredAgents) |-> registeredAgents[n].value]
  /\ emitted = << >>

\* registerAgent up to its await (lines 584-588): an id the registry has throws,
\* any other agent is initialized, which the call awaits.
RegisterAgent(agent) ==
  /\ Len(regCalls) < MaxCalls
  /\ regCalls' = Append(regCalls,
       IF MapHas(registeredAgents, agent.id)
       THEN [agent |-> agent, st |-> "rejected", error |-> AlreadyRegistered(agent.id)]
       ELSE [agent |-> agent, st |-> "initializing"])
  /\ UNCHANGED <<nonRegVars, registeredAgents, listeners, emitted>>

\* registerAgent after its await (lines 589-596): the agent is stored under its
\* id and the orchestrator's handlers are attached to it.
RegisterAgentResume(c) ==
  /\ regCalls[c].st = "initializing"
  /\ registeredAgents' = MapSet(registeredAgents, regCalls[c].agent.id, regCalls[c].agent)
  /\ listeners' = Append(listeners, regCalls[c].agent)
  /\ regCalls' = [regCalls EXCEPT ![c].st = "registered"]
  /\ UNCHANGED <<nonRegVars, emitted>>

\* The conflicts an agent may raise; `unresolvable` marks one no strategy settles.
Conflicts == {[description |-> "both edited app.js", unresolvable |-> u] : u \in BOOLEAN}

\* ConflictResolver.resolve, lines 947-949.
Resolve(conflict) == [resolution |-> "automated", strategy |-> "merge", conflict |-> conflict]

\* How many times the orchestrator's 'conflict' handler is attached to the agent.
HandlerCount(agent) == Cardinality({n \in DOMAIN listeners : listeners[n] = agent})

\* The number of 'conflict' events raised so far.
Raised == IF emitted = << >> THEN 0 ELSE emitted[Len(emitted)].event

\* An agent the handlers are attached to emits 'conflict': handleAgentConflict
\* (lines 853-865) runs once per attached handler, resolves the conflict and
\* emits 'conflictResolved'.
AgentConflict(agent, conflict) ==
  /\ HandlerCount(agent) > 0
  /\ Raised < MaxConflicts
  /\ emitted' = emitted \o
       [n \in 1..HandlerCount(agent) |->
          [event |-> Raised + 1, conflict |-> conflict, resolution |-> Resolve(conflict)]]
  /\ UNCHANGED <<nonRegVars, registeredAgents, regCalls, listeners>>

RegNext ==
  \/ \E agent \in RegPool : RegisterAgent(agent)
  \/ \E c \in DOMAIN regCalls : RegisterAgentResume(c)
  \/ \E agent \in RegPool, conflict \in Conflicts : AgentConflict(agent, conflict)

(***************************************************************************)
(* orchestrateTask before executeOrchestration: the team is selected and   *)
(* optimized and the collaboration plan is made.                           *)
(***************************************************************************)
MaxPlans == 2

\* What a run of orchestrateTask leaves alone.
nonTaskVars == <<wfVars, regVars, ovVars, extVars>>

\* The agents of the registries a team is selected from: the three agents of
\* AgentTeam and a second coder constructed later.
SelPool ==
  { BaseAgent("Architect", "architecture", 1, 1),
    BaseAgent("Coder", "coding", 1, 1),
    BaseAgent("Reviewer", "code-review", 1, 1),
    BaseAgent("Coder", "coding", 2, 1) }

\* The sequences of up to n distinct members of S.
DistinctSeqs(S, n) ==
  {q \in SeqsUpTo(S, n) : \A x, y \in DOMAIN q : x # y => q[x] # q[y]}

\* The registries orchestrateTask finds: up to MaxTasks agents with distinct
\* ids, in every registration order, and the registry without agents.
Registries == {RegistryOf(q) : q \in DistinctSeqs(SelPool, MaxTasks)}

\* task.qualityRequirements: none, or a coverage threshold.
NoRequirements == [none |-> TRUE]
CoverageThreshold == [coverage |-> 80]

\* The tasks handed to orchestrateTask; "testing" is a skill no agent of SelPool has.
Tasks ==
  {[name |-> "task", primarySkill |-> skill, requiresQA |-> qa, qualityRequirements |-> req] :
     skill \in {"architecture", "coding", "testing"}, qa \in BOOLEAN,
     req \in {NoRequirements, CoverageThreshold}}

\* The teams handed to optimizeTeamComposition: up to MaxTasks members of
\* AgentTeam, an agent possibly repeated.
InputTeams == SeqsUpTo({AgentTeam[n] : n \in 1..Len(AgentTeam)}, MaxTasks)

\* A run entered by orchestrateTask on some registry, or by
\* optimizeTeamComposition on some team, the plan then made for its result.
TaskInit ==
  /\ entry \in {"select", "optimize"}
  /\ opc = entry
  /\ task \in (IF entry = "select" THEN Tasks
               ELSE {t \in Tasks : t.primarySkill = "coding" /\ t.requiresQA})
  /\ IF entry = "select"
     THEN RegInit(Registries) /\ team = << >>
     ELSE RegInit({RegistryOf(AgentTeam)}) /\ team \in InputTeams
  /\ planLog = << >>
  /\ agentTeam = << >>
  /\ plan = << >>
  /\ phaseIdx = 1
  /\ execution = Null
  /\ phaseExecution = Null
  /\ taskState = << >>
  /\ seqPos = 1
  /\ previousResult = Null
  /\ outcome = [st |-> "pending"]
  /\ agentHistory = << >>
  /\ startLog = << >>
  /\ validated = << >>
  /\ hookCalls = << >>
  /\ thrown = Null
  /\ result = Null

\* Array.from(this.registeredAgents.values())
Candidates(registry) == [n \in 1..Len(registry) |-> registry[n].value]

\* Mutant of SelectPrimaryAgent: the last candidate with the skill is taken.
SelectPrimaryAgentLast(t, candidates) ==
  LET matches == {n \in DOMAIN candidates : candidates[n].specialization = t.primarySkill} IN
  IF matches # {}
  THEN candidates[CHOOSE n \in matches : \A m \in matches : m <= n]
  ELSE IF candidates # << >> THEN candidates[1] ELSE Undefined

\* IntelligentAgentSelector.selectPrimaryAgent (lines 953-955):
\* candidates.find(...) || candidates[0]
SelectPrimaryAgent(t, candidates) ==
  LET matches == {n \in DOMAIN candidates : candidates[n].specialization = t.primarySkill} IN
  IF matches # {}
  THEN candidates[CHOOSE n \in matches : \A m \in matches : n <= m]
  ELSE IF candidates # << >> THEN candidates[1] ELSE Undefined

\* selectSupportingAgents and selectQAAgents (lines 957-958) return [].
SelectSupportingAgents(t, candidates, primary) == << >>

SelectQAAgents(t, candidates) == << >>

\* TeamOptimizer.optimize (lines 978-980) returns the team it is given.
Optimize(tm) == tm

\* selectAgentTeam up to its call of optimizeTeamComposition (lines 635-655).
SelectAgentTeam ==
  /\ opc = "select"
  /\ LET candidates == Candidates(registeredAgents)
         primaryAgent == SelectPrimaryAgent(task, candidates)
     IN team' = <<primaryAgent>>
                \o SelectSupportingAgents(task, candidates, primaryAgent)
                \o (IF task.requiresQA # FALSE THEN SelectQAAgents(task, candidates) ELSE << >>)
  /\ opc' = "optimize"
  /\ UNCHANGED <<nonTaskVars, task, entry, planLog, agentTeam, plan, phaseIdx, execution,
                 phaseExecution, taskState, seqPos, previousResult, outcome, agentHistory,
                 startLog, validated, hookCalls, thrown, result>>

\* optimizeTeamComposition (lines 898-902): its result is the team of the run.
OptimizeTeamComposition ==
  /\ opc = "optimize"
  /\ agentTeam' = Optimize(team)
  /\ opc' = "planning"
  /\ UNCHANGED <<nonTaskVars, selVars, plan, phaseIdx, execution, phaseExecution, taskState,
                 seqPos, previousResult, outcome, agentHistory, startLog, validated,
                 hookCalls, thrown, result>>

\* The options createCollaborationPlan hands to the planner (lines 666-674).
PlanOptions(agents, t) ==
  [agents |-> agents, task |-> t, collaborationMatrix |-> << >>,
   projectConstraints |-> [maxConcurrentAgents |-> 5],
   qualityRequirements |-> t.qualityRequirements]

\* Mutant of CreatePlan: the tasks are assigned to an agent outside the team.
CreatePlanForOutsider(options) ==
  [phases |->
     << [name |-> "Analysis", executionMode |-> "parallel",
         agentTasks |-> [n \in 1..Len(options.agents) |->
                           [agentId |-> Outsider,
                            task |-> [type |-> "analyze", target |-> options.task.name]]]] >>]

\* Mutant of CreatePlan: the phase is named after the orchestrations recorded so far.
CreatePlanByHistory(options) ==
  [phases |->
     << [name |-> IF agentHistory = << >> THEN "Analysis" ELSE "Review",
         executionMode |-> "parallel",
         agentTasks |-> [n \in 1..Len(options.agents) |->
                           [agentId |-> options.agents[n].id,
                            task |-> [type |-> "analyze", target |-> options.task.name]]]] >>]

\* CollaborationPlanner.createPlan (lines 962-975): one parallel 'Analysis'
\* phase with an 'analyze' task for every agent of the team.
CreatePlan(options) ==
  [phases |->
     << [name |-> "Analysis", executionMode |-> "parallel",
         agentTasks |-> [n \in 1..Len(options.agents) |->
                           [agentId |-> options.agents[n].id,
                            task |-> [type |-> "analyze", target |-> options.task.name]]]] >>]

\* Reading agent.id of a team member that is undefined.
TypeError == [type |-> "TypeError"]

\* createCollaborationPlan (lines 663-675). A team with an undefined member, as
\* selected from a registry without agents, makes the planner throw, which
\* orchestrateTask catches and throws on.
CreateCollaborationPlan ==
  /\ opc = "planning"
  /\ IF \E n \in DOMAIN agentTeam : agentTeam[n] = Undefined
     THEN /\ thrown' = TypeError
          /\ opc' = "catch"
          /\ UNCHANGED <<plan, planLog>>
     ELSE LET options == PlanOptions(agentTeam, task) IN
          /\ plan' = CreatePlan(options).phases
          /\ planLog' = Append(planLog, [options |-> options, plan |-> CreatePlan(options)])
          /\ opc' = "start"
          /\ UNCHANGED thrown
  /\ UNCHANGED <<nonTaskVars, task, team, entry, agentTeam, phaseIdx, execution,
                 phaseExecution, taskState, seqPos, previousResult, outcome, agentHistory,
                 startLog, validated, hookCalls, result>>

\* The run has settled and its caller calls createCollaborationPlan once more,
\* for the same team and task.
CreateCollaborationPlanAgain ==
  /\ opc \in {"resolved", "rejected"}
  /\ planLog # << >>
  /\ Len(planLog) < MaxPlans
  /\ LET options == PlanOptions(agentTeam, task) IN
       planLog' = Append(planLog, [options |-> options, plan |-> CreatePlan(options)])
  /\ UNCHANGED <<nonTaskVars, orchVars, task, team, entry>>

TaskNext ==
  \/ SelectAgentTeam
  \/ OptimizeTeamComposition
  \/ CreateCollaborationPlan
  \/ ExecuteOrchestration
  \/ ExecutePhaseParallel
  \/ \E k \in DOMAIN taskState, out \in Outcomes : ParallelSettle(k, out)
  \/ ParallelJoin
  \/ OrchestrationReturn
  \/ OrchestrateTaskRejects
  \/ \E writeOk \in BOOLEAN : RecordOrchestrationInsights(writeOk)
  \/ CreateCollaborationPlanAgain

(***************************************************************************)
(* Agent tasks that never complete.                                        *)
(***************************************************************************)

\* The promise of an executeTask call whose performTask never settles.
Hung == [st |-> "hung"]

\* performTask of the started task k returns a promise that never settles:
\* executeTask (lines 998-1023) stays at its await, and so does its caller.
TaskNeverCompletes(k) ==
  /\ taskState[k] = Running
  /\ taskState' = [taskState EXCEPT ![k] = Hung]
  /\ UNCHANGED <<nonOrchVars, agentTeam, plan, opc, phaseIdx, execution, phaseExecution,
                 seqPos, previousResult, outcome, agentHistory, startLog, validated,
                 hookCalls, thrown, result>>

\* The plans run with tasks that may never complete: up to MaxPhases phases of StepPhases.
HangPlans == { Named(ps) : ps \in UNION {[1..n -> StepPhases] : n \in 1..MaxPhases} }

HangNext ==
  \/ OrchNext
  \/ \E k \in DOMAIN taskState : TaskNeverCompletes(k)

(***************************************************************************)
(* Overlapping orchestrateTask calls on one orchestrator. Each call is     *)
(* followed through the steps at which it reads the registry and runs the  *)
(* agents; every call has its own team, plan and execution record.         *)
(***************************************************************************)
MaxOverlap == 2

nonOvVars == <<orchVars, wfVars, regVars, selVars, extVars>>

\* The tasks of the overlapping calls: one per primary skill.
OverlapTasks == {t \in Tasks : t.requiresQA /\ t.qualityRequirements = NoRequirements}

\* The registry the overlapping calls share: the agents of AgentTeam.
SharedRegistry ==
  RegistryOf(<< BaseAgent("Architect", "architecture", 1, 1),
                BaseAgent("Coder", "coding", 1, 1),
                BaseAgent("Reviewer", "code-review", 1, 1) >>)

\* orchestrateTask is called (lines 602-606) while earlier calls may still run.
OrchestrateTask(t) ==
  /\ Len(calls) < MaxOverlap
  /\ calls' = Append(calls, [task |-> t, pc |-> "select", team |-> << >>,
                             phases |-> << >>, tasks |-> << >>])
  /\ UNCHANGED nonOvVars

\* Call c selects its team and has its plan made (lines 610-614).
CallSelectAndPlan(c) ==
  /\ calls[c].pc = "select"
  /\ LET candidates == Candidates(registeredAgents)
         tm == Optimize(<<SelectPrimaryAgent(calls[c].task, candidates)>>)
     IN calls' = [calls EXCEPT ![c].team = tm,
                               ![c].phases = CreatePlan(PlanOptions(tm, calls[c].task)).phases,
                               ![c].pc = "start"]
  /\ UNCHANGED nonOvVars

\* Call c enters executePhaseParallel for the phase of its plan (lines 751-767):
\* executeTask is called on every agent of the phase.
CallExecutePhase(c) ==
  /\ calls[c].pc = "start"
  /\ calls' = [calls EXCEPT
                 ![c].tasks = [k \in DOMAIN calls[c].phases[1].agentTasks |->
                                 [agentId |-> calls[c].phases[1].agentTasks[k].agentId,
                                  st |-> "running"]],
                 ![c].pc = "parallel"]
  /\ UNCHANGED nonOvVars

\* executeTask of task k of call c settles.
CallTaskSettles(c, k, out) ==
  /\ calls[c].pc = "parallel"
  /\ calls[c].tasks[k].st = "running"
  /\ calls' = [calls EXCEPT ![c].tasks[k].st = IF out = "ok" THEN "done" ELSE "failed"]
  /\ UNCHANGED nonOvVars

\* Promise.all of call c fulfils; the call goes on to its result.
CallJoin(c) ==
  /\ calls[c].pc = "parallel"
  /\ \A k \in DOMAIN calls[c].tasks : calls[c].tasks[k].st # "running"
  /\ calls' = [calls EXCEPT ![c].pc = "resolved"]
  /\ UNCHANGED nonOvVars

OverlapNext ==
  \/ \E t \in OverlapTasks : OrchestrateTask(t)
  \/ \E c \in DOMAIN calls : CallSelectAndPlan(c)
  \/ \E c \in DOMAIN calls : CallExecutePhase(c)
  \/ \E c \in DOMAIN calls : \E k \in DOMAIN calls[c].tasks, out \in Outcomes :
       CallTaskSettles(c, k, out)
  \/ \E c \in DOMAIN calls : CallJoin(c)

(***************************************************************************)
(* Specifications.                                                         *)
(***************************************************************************)

\* The orchestrator run on every plan of Plans; the workflow engine rests.
Init == OrchInit(Plans) /\ WfInit /\ RegInit({<< >>}) /\ SelInit /\ OvInit /\ ExtInit

Next == OrchNext

Spec == Init /\ [][Next]_vars

\* The workflow engine; the orchestrator rests.
WfSpecInit == OrchInit({<< >>}) /\ WfInit /\ RegInit({<< >>}) /\ SelInit /\ OvInit /\ ExtInit

WfSpec == WfSpecInit /\ [][WfNext]_vars

\* The registry, empty at construction; orchestrator runs and the engine rest.
RegSpecInit == OrchInit({<< >>}) /\ WfInit /\ RegInit({<< >>}) /\ SelInit /\ OvInit /\ ExtInit

RegSpec == RegSpecInit /\ [][RegNext]_vars

\* The orchestrator with agent tasks that may never complete. Every step of the
\* orchestrator that can be taken is taken in the end: the event loop runs every
\* continuation that is ready, and a task that completes at all completes in
\* finite time.
HangSpecInit == OrchInit(HangPlans) /\ WfInit /\ RegInit({<< >>}) /\ SelInit /\ OvInit /\ ExtInit

HangSpec == HangSpecInit /\ [][HangNext]_vars /\ WF_vars(OrchNext)

\* Overlapping orchestrateTask calls on an initialized orchestrator.
OverlapSpecInit ==
  OrchInit({<< >>}) /\ WfInit /\ RegInit({SharedRegistry}) /\ SelInit /\ OvInit /\ ExtInit

OverlapSpec == OverlapSpecInit /\ [][OverlapNext]_vars

\* orchestrateTask from the selection of the team on; the engine rests.
TaskSpecInit == TaskInit /\ WfInit /\ OvInit /\ ExtInit

TaskSpec == TaskSpecInit /\ [][TaskNext]_vars

(***************************************************************************)
(* Claims about the orchestrator, checked under Spec.                      *)
(***************************************************************************)

Range(f) == {f[x] : x \in DOMAIN f}

\* The agent tasks 1..n of the phase name n distinct agents of the team.
DistinctTeamTasks(phase, n) ==
  /\ \A k \in 1..n : phase.agentTasks[k].agentId \in TeamIds
  /\ \A k, m \in 1..n : k # m => phase.agentTasks[k].agentId # phase.agentTasks[m].agentId

\* The keys of a result map whose entry is an error entry.
ErrorKeys(m) == {m[n].key : n \in {x \in 1..Len(m) : IsErrorEntry(m[x].value)}}

\* The positions of the phase's tasks whose executeTask has thrown.
ThrownTasks == {k \in 1..Len(taskState) :
                  taskState[k].st = "fulfilled" /\ ~taskState[k].ret.success}

\* C1: a parallel phase whose N agent tasks name N distinct agents of the team
\* never throws; it returns only when all N tasks have settled, and the result
\* map of the recorded phase then has exactly N entries, one per agent, of which
\* exactly the M entries of the agents that threw are error entries.
C1_ParallelNeverFailsFast ==
  [][ (opc = "parallel" /\ DistinctTeamTasks(CurPhase, NumTasks)) =>
        /\ opc' # "phaseThrow"
        /\ (opc' # "parallel") =>
             LET pe == execution'.phases[phaseIdx]
                 failedIds == {CurPhase.agentTasks[k].agentId : k \in ThrownTasks}
             IN /\ \A k \in 1..NumTasks : taskState[k].st = "fulfilled"
                /\ Len(pe.agentResults) = NumTasks
                /\ Range(MapKeys(pe.agentResults)) =
                     {CurPhase.agentTasks[k].agentId : k \in 1..NumTasks}
                /\ ErrorKeys(pe.agentResults) = failedIds
                /\ Cardinality(ErrorKeys(pe.agentResults)) = Cardinality(ThrownTasks)
    ]_vars

\* C1 witness: a parallel phase of three distinct team agents has been recorded
\* with two error entries among its three entries.
C1_Witness ==
  /\ execution # Null
  /\ Len(plan) = 1
  /\ Len(execution.phases) = 1
  /\ plan[1].executionMode = "parallel"
  /\ Len(plan[1].agentTasks) = 3
  /\ DistinctTeamTasks(plan[1], 3)
  /\ Len(execution.phases[1].agentResults) = 3
  /\ Cardinality(ErrorKeys(execution.phases[1].agentResults)) = 2

\* A pipeline task has thrown and the error is on its way out or has arrived.
SequentialFailure ==
  \/ opc \in {"phaseThrow", "catch"} /\ thrown.type = "SequentialFailed"
  \/ opc = "rejected" /\ outcome.error.type = "SequentialFailed"

\* The positions of the running phase's tasks in the order executeTask was called.
StartsOfPhase == SelectSeq(startLog, LAMBDA e : e[1] = phaseIdx)

\* Tasks 1..seqPos were started in list order and no later task was started.
StartedInOrderUpToFailure ==
  /\ StartsOfPhase = [n \in 1..seqPos |-> <<phaseIdx, n>>]
  /\ \A m \in (seqPos + 1)..NumTasks : taskState[m] = Pending

\* The result map holds the entries of tasks 1..seqPos in list order: results
\* for the first seqPos - 1, an error entry for the failing one.
EntriesUpToFailure ==
  LET m == phaseExecution.agentResults IN
  /\ MapKeys(m) = [n \in 1..seqPos |-> CurPhase.agentTasks[n].agentId]
  /\ \A n \in 1..Len(m) : IsErrorEntry(m[n].value) <=> n = seqPos

\* C2 as stated: for every sequential phase whose k-th task is the first to
\* fail, tasks 1..k ran in list order, no later task was started and the
\* result map holds exactly k entries, k-1 results then the error entry.
C2_Original ==
  /\ SequentialFailure => StartedInOrderUpToFailure
  /\ (opc = "phaseThrow" /\ thrown.type = "SequentialFailed") => EntriesUpToFailure

\* C2 as amended: the same, for the phases whose tasks 1..k name k distinct agents.
C2_SequentialStrictPipeline ==
  /\ SequentialFailure => StartedInOrderUpToFailure
  /\ (opc = "phaseThrow" /\ thrown.type = "SequentialFailed"
        /\ DistinctTeamTasks(CurPhase, seqPos)) => EntriesUpToFailure

\* C2 witness: the second of three distinct pipeline agents has just thrown.
C2_Witness ==
  /\ opc = "phaseThrow"
  /\ thrown.type = "SequentialFailed"
  /\ NumTasks = 3
  /\ DistinctTeamTasks(CurPhase, 3)
  /\ seqPos = 2

\* C3: when a pipeline agent fails, the error that fails the orchestration names
\* the failing agent and carries the cause, and the Execution record reports the
\* failing phase with its entries up to and including the failing position.
C3_ExecutionReportsFailingPhase ==
  /\ SequentialFailure =>
       LET err == IF opc = "rejected" THEN outcome.error ELSE thrown IN
       /\ err.agent = FindAgent(CurPhase.agentTasks[seqPos].agentId).name
       /\ err.cause \in Causes
  /\ (opc = "catch" /\ thrown.type = "SequentialFailed") =>
       /\ execution.error = thrown
       /\ Len(execution.phases) = phaseIdx
       /\ Len(execution.phases[phaseIdx].agentResults) = seqPos

\* The phases in which an agent task has been started.
StartedPhases == {startLog[x][1] : x \in DOMAIN startLog}

\* C4: phases run in plan order; while the execution record is live, every phase
\* before a phase with a started agent task has its PhaseExecution in
\* execution.phases, at its place in the plan, and, when it requires validation,
\* its validatePhaseResult has returned; no task of a phase after the current
\* one has been started.
C4_PhasesInPlanOrder ==
  /\ \A x \in DOMAIN startLog : \A y \in DOMAIN startLog :
       x <= y => startLog[x][1] <= startLog[y][1]
  /\ \A p \in StartedPhases : p <= phaseIdx
  /\ execution # Null =>
       \A p \in StartedPhases : \A n \in 1..(p - 1) :
         /\ Len(execution.phases) >= n
         /\ execution.phases[n].name = plan[n].name
         /\ execution.phases[n].completed
         /\ plan[n].requiresValidation => n \in Range(validated)

\* C4 witness: a task of the second phase runs after a first phase that
\* required validation.
C4_Witness ==
  /\ execution # Null
  /\ 2 \in StartedPhases
  /\ plan[1].requiresValidation
  /\ Len(execution.phases) = 1

\* A phase has thrown and orchestrateTask has rejected with its error.
PhaseFailed ==
  /\ opc = "rejected"
  /\ outcome.error.type \in {"SequentialFailed", "AgentNotFound"}

\* C5: after a phase failed, orchestrateTask has rejected with the triggering
\* error and the Execution record is still there, holding the phases completed
\* before the failure and the error.
C5_ExecutionSurvivesFailure ==
  PhaseFailed =>
    /\ execution # Null
    /\ execution.error = outcome.error
    /\ Len(execution.phases) = phaseIdx - 1

(***************************************************************************)
(* Claims about the workflow engine, checked under WfSpec.                 *)
(***************************************************************************)

\* C6: across a run the stages are entered in strictly increasing order, so
\* currentStage never decreases and no stage is entered twice, and a completed
\* workflow has currentStage = stages.length.
C6_CurrentStageAtCompletion ==
  /\ \A x \in DOMAIN wfLog.entered : \A y \in DOMAIN wfLog.entered :
       x < y => wfLog.entered[x] < wfLog.entered[y]
  /\ \A id \in DOMAIN heap :
       heap[id].status = "completed" => heap[id].currentStage = Len(heap[id].stages)

\* The stages of the running workflow that failed a pre-flight check or threw.
FatalStages == wfLog.preFailed \cup wfLog.threw

\* C7: a pre-flight check that does not pass and an exception of the stage
\* executor are fatal: the workflow is 'failed' with the error recorded,
\* startWorkflow has rejected with that error, the loop has stopped at the
\* failing stage, no later stage was entered, and a stage whose pre-flight check
\* failed was never executed.
C7_PreFlightAndStageFailuresFatal ==
  HasWorkflow =>
    /\ \A i \in FatalStages :
         /\ Workflow.status = "failed"
         /\ Workflow.error = (IF i \in wfLog.preFailed THEN PreFlightFailed ELSE StageFailed)
         /\ wfOutcome = [st |-> "rejected", error |-> Workflow.error]
         /\ wpc = "rejected"
         /\ Workflow.currentStage = i
         /\ \A x \in DOMAIN wfLog.entered : wfLog.entered[x] <= i
    /\ \A i \in wfLog.preFailed :
         /\ i \notin Range(wfLog.executed)
         /\ Workflow.stages[i + 1].result = Null

\* C7 witness: the second stage failed its pre-flight check after the first
\* stage had completed.
C7_Witness ==
  /\ HasWorkflow
  /\ wfLog.preFailed = {1}
  /\ wfLog.executed = <<0>>
  /\ wpc = "rejected"

C9_CompletedAndPersisted ==
  /\ wpc = "finalize" =>
       /\ Workflow.status = "completed"
       /\ stageIdx = Len(Workflow.stages)
  /\ wfOutcome.st = "resolved" =>
       /\ currentWorkflow \in DOMAIN persisted
       /\ persisted[currentWorkflow] = Workflow
  /\ \A id \in DOMAIN persisted :
       /\ persisted[id].id = id
       /\ persisted[id].status = "completed"
       /\ Len(persisted[id].stages) = Len(StockStages)
       /\ \A n \in DOMAIN persisted[id].stages : persisted[id].stages[n].result # Null

\* C9 witness: two workflows have completed and both records are persisted.
C9_Witness ==
  /\ DOMAIN persisted = {1, 2}
  /\ wfOutcome.st = "resolved"

IsPrefix(a, b) == Len(a) <= Len(b) /\ \A n \in 1..Len(a) : a[n] = b[n]

\* The stages of workflow id for which stageCompleted has been emitted.
CompletedStages(id) ==
  {e[3] : e \in {x \in Range(wfEvents) : x[1] = "stageCompleted" /\ x[2] = id}}

\* One insight per stage completed so far, in stage order; a workflow that
\* failed at stage i reports currentStage = i and i insights.
InsightsMatchStages ==
  /\ \A id \in DOMAIN heap :
       /\ Len(heap[id].insights) = Cardinality(CompletedStages(id))
       /\ \A n \in 1..Len(heap[id].insights) :
            /\ n - 1 \in CompletedStages(id)
            /\ heap[id].insights[n].stage = heap[id].stages[n].name
  /\ HasWorkflow =>
       \A i \in FatalStages :
         /\ Workflow.status = "failed"
         /\ Workflow.currentStage = i
         /\ Len(Workflow.insights) = i

\* No step removes or changes an insight of any workflow.
InsightsAppendOnly ==
  \A id \in DOMAIN heap : IsPrefix(heap[id].insights, heap'[id].insights)

\* C10: insights are append-only and never discarded; at every point a workflow
\* holds one insight per completed stage, in stage order, and a workflow failed
\* at stage i reports currentStage = i with the i insights gathered before.
C10_InsightsAppendOnly == []InsightsMatchStages /\ [][InsightsAppendOnly]_vars

\* C10 witness: a workflow failed in its third stage and holds two insights.
C10_Witness ==
  /\ HasWorkflow
  /\ wfLog.threw = {2}
  /\ Workflow.status = "failed"
  /\ Workflow.currentStage = 2
  /\ Len(Workflow.insights) = 2

(***************************************************************************)
(* Claims about the registry and the conflict handler, checked under       *)
(* RegSpec.                                                                *)
(***************************************************************************)

\* The agent that was stored first under the id.
FirstRegistered(id) ==
  listeners[CHOOSE n \in DOMAIN listeners :
              /\ listeners[n].id = id
              /\ \A m \in 1..(n - 1) : listeners[m].id # id]

\* C11: a registerAgent call fails only for an id the registry holds; every
\* other call adds exactly its agent, so the registry has one entry per call
\* that registered, and every id maps to the first agent registered under it.
C11_FirstRegistrationWins ==
  /\ \A c \in DOMAIN regCalls :
       regCalls[c].st = "rejected" => MapHas(registeredAgents, regCalls[c].agent.id)
  /\ Len(registeredAgents) = Len(listeners)
  /\ \A n \in DOMAIN registeredAgents :
       registeredAgents[n].value = FirstRegistered(registeredAgents[n].key)

\* C18: every 'conflictResolved' event carries a resolution that names a
\* strategy, the resolution of an unresolvable conflict is tagged 'escalate',
\* and a 'conflict' event has exactly one 'conflictResolved' event.
C18_ResolveTotalAndEscalates ==
  \A n \in DOMAIN emitted :
    /\ emitted[n].resolution # Null
    /\ "strategy" \in DOMAIN emitted[n].resolution
    /\ emitted[n].conflict.unresolvable =>
         "escalate" \in {emitted[n].resolution.resolution, emitted[n].resolution.strategy}
    /\ \A m \in DOMAIN emitted : emitted[m].event = emitted[n].event => m = n

(***************************************************************************)
(* Claims about team selection and planning, checked under TaskSpec.       *)
(***************************************************************************)

\* selectAgentTeam has built its team from the registry.
TeamSelected == entry = "select" /\ opc # "select"

\* The places of the registry, in registration order, whose agent has the skill.
SkillMatches == {n \in DOMAIN registeredAgents :
                   registeredAgents[n].value.specialization = task.primarySkill}

\* C12: the primary agent, the first member of the selected team, is the first
\* agent in registration order whose specialization is task.primarySkill, or the
\* first registered agent when none has it; with a non-empty registry it is a
\* registered agent, and it stays the first member of the optimized team.
C12_PrimaryIsFirstMatch ==
  TeamSelected =>
    /\ Len(team) >= 1
    /\ \A n \in SkillMatches :
         (\A m \in SkillMatches : n <= m) => team[1] = registeredAgents[n].value
    /\ (SkillMatches = {} /\ registeredAgents # << >>) => team[1] = registeredAgents[1].value
    /\ registeredAgents # << >> =>
         /\ MapHas(registeredAgents, team[1].id)
         /\ MapGet(registeredAgents, team[1].id) = team[1]
         /\ agentTeam # << >> => agentTeam[1] = team[1]

\* C12 witness: of two coders the one registered first, the second of three
\* agents, was selected for a coding task although the other was constructed
\* earlier.
C12_Witness ==
  /\ TeamSelected
  /\ task.primarySkill = "coding"
  /\ Len(registeredAgents) = 3
  /\ registeredAgents[1].key = "architecture_1"
  /\ registeredAgents[2].key = "coding_2"
  /\ registeredAgents[3].key = "coding_1"
  /\ team[1].id = "coding_2"
  /\ agentTeam # << >>

\* optimizeTeamComposition has returned.
TeamOptimized == entry # "none" /\ opc \notin {"select", "optimize"}

\* sub is a subsequence of sq.
IsSubsequence(sub, sq) ==
  \E f \in [DOMAIN sub -> DOMAIN sq] :
    /\ \A x, y \in DOMAIN sub : x < y => f[x] < f[y]
    /\ \A x \in DOMAIN sub : sub[x] = sq[f[x]]

NoDuplicateIds(tm) == \A x, y \in DOMAIN tm : x # y => tm[x].id # tm[y].id

\* C13: the team optimizeTeamComposition returns has no agent id twice, is a
\* subsequence of the team it was given and starts with that team's primary
\* agent; the team selectAgentTeam returns has no agent id twice.
C13_OptimizedTeamHasNoDuplicates ==
  TeamOptimized =>
    /\ NoDuplicateIds(agentTeam)
    /\ IsSubsequence(agentTeam, team)
    /\ team # << >> => (agentTeam # << >> /\ agentTeam[1] = team[1])

\* createPlan has returned a plan for the team of the run.
PlanMade == planLog # << >>

\* C14: a plan createPlan returned has at least one phase, every agentId of its
\* agent tasks is the id of a member of the team it was made for, and its
\* execution never meets 'Agent not found in team': no callback is rejected and
\* no such error is thrown or rejects orchestrateTask.
C14_PlanReferencesTeamOnly ==
  /\ \A x \in DOMAIN planLog :
       /\ Len(planLog[x].plan.phases) >= 1
       /\ \A p \in DOMAIN planLog[x].plan.phases :
            \A k \in DOMAIN planLog[x].plan.phases[p].agentTasks :
              \E n \in DOMAIN planLog[x].options.agents :
                planLog[x].options.agents[n].id = planLog[x].plan.phases[p].agentTasks[k].agentId
  /\ PlanMade =>
       /\ \A k \in DOMAIN taskState : taskState[k].st # "rejected"
       /\ thrown = Null
       /\ outcome.st = "rejected" => outcome.error = WriteFailed

\* C14 witness: the planner's phase for a team of three agents has run, one of
\* its agents failing, and has been recorded.
C14_Witness ==
  /\ PlanMade
  /\ Len(agentTeam) = 3
  /\ NoDuplicateIds(agentTeam)
  /\ execution # Null
  /\ Len(execution.phases) = 1
  /\ Len(execution.phases[1].agentResults) = 3
  /\ Cardinality(ErrorKeys(execution.phases[1].agentResults)) = 1

\* The quality requirements name a coverage or review threshold.
HasThreshold(req) == "coverage" \in DOMAIN req \/ "review" \in DOMAIN req

\* C15: a plan made for quality requirements with a threshold has a phase with
\* requiresValidation set; the plan for the team Architect, Coder, Reviewer and
\* a task requiring QA has at least two phases and its last phase includes the
\* Reviewer and has requiresValidation set.
C15_ValidationPlanned ==
  \A x \in DOMAIN planLog :
    LET options == planLog[x].options
        phases == planLog[x].plan.phases
    IN /\ HasThreshold(options.qualityRequirements) =>
            \E p \in DOMAIN phases : Truthy(phases[p], "requiresValidation")
       /\ (options.agents = AgentTeam /\ options.task.requiresQA) =>
            /\ Len(phases) >= 2
            /\ \E k \in DOMAIN phases[Len(phases)].agentTasks :
                 phases[Len(phases)].agentTasks[k].agentId = "code-review_1"
            /\ Truthy(phases[Len(phases)], "requiresValidation")

\* What the claim calls the structure of a plan: per phase its name, its mode
\* and the agents assigned.
Structure(pl) ==
  [p \in DOMAIN pl.phases |->
     [name |-> pl.phases[p].name, executionMode |-> pl.phases[p].executionMode,
      agents |-> [k \in DOMAIN pl.phases[p].agentTasks |-> pl.phases[p].agentTasks[k].agentId]]]

SameArtifactModified(pe) ==
  \E x, y \in DOMAIN pe.agentResults :
    /\ x # y
    /\ ~IsErrorEntry(pe.agentResults[x].value)
    /\ ~IsErrorEntry(pe.agentResults[y].value)
    /\ pe.agentResults[x].value.result.artifact = pe.agentResults[y].value.result.artifact

\* C17: a completed parallel phase in which two agents modified the same
\* artifact has a Conflict record in its conflicts list, and every conflict of a
\* completed phase has a resolution that is not null.
C17_ConflictRecordedAndResolved ==
  execution # Null =>
    \A n \in DOMAIN execution.phases :
      LET pe == execution.phases[n] IN
      /\ (plan[n].executionMode = "parallel" /\ SameArtifactModified(pe)) =>
           Len(pe.conflicts) >= 1
      /\ \A c \in DOMAIN pe.conflicts :
           "resolution" \in DOMAIN pe.conflicts[c] /\ pe.conflicts[c].resolution # Null

\* C19: no agent task hangs a run: a parallel join that is awaited is left, a
\* pipeline step that is awaited is left, and orchestrateTask settles.
C19_NoTaskHangsTheRun ==
  /\ (opc = "parallel") ~> (opc # "parallel")
  /\ (opc = "seqAwait") ~> (opc # "seqAwait")
  /\ <>(outcome.st # "pending")

\* The tasks an agent is executing: the executeTask calls in flight on it.
InFlight(id) ==
  {ck \in {<<c, k>> : c \in DOMAIN calls, k \in 1..MaxTasks} :
     /\ ck[2] \in DOMAIN calls[ck[1]].tasks
     /\ calls[ck[1]].tasks[ck[2]].agentId = id
     /\ calls[ck[1]].tasks[ck[2]].st = "running"}

\* C20: no registered agent executes tasks of two phases at the same time: of
\* two overlapping orchestrations that assign the same agent, the second waits
\* or is rejected while the agent's first task is in flight.
C20_OneTaskPerAgent ==
  \A n \in DOMAIN registeredAgents : Cardinality(InFlight(registeredAgents[n].key)) <= 1

(***************************************************************************)
(* Further claims about the orchestrator, checked under Spec.              *)
(***************************************************************************)

\* The result executeTask returned for task k of the running pipeline phase.
ResultOfTask(k) == taskState[k].ret

\* C22: in a sequential phase, a task with usesPreviousResult set is handed as
\* previousResult the result of the task immediately before it in the same
\* phase, which has returned, and null when it is the first task of the phase.
C22_PreviousResultIsPredecessors ==
  (opc = "seqAwait" /\ CurPhase.agentTasks[seqPos].usesPreviousResult) =>
    IF seqPos = 1
    THEN previousResult = Null
    ELSE /\ taskState[seqPos - 1].st = "fulfilled"
         /\ previousResult = ResultOfTask(seqPos - 1)
         /\ previousResult.result.by = CurPhase.agentTasks[seqPos - 1].agentId

\* C22 witness: the first task of a second pipeline phase runs with
\* usesPreviousResult set, after the first phase produced a result.
C22_Witness ==
  /\ opc = "seqAwait"
  /\ phaseIdx = 2
  /\ seqPos = 1
  /\ CurPhase.agentTasks[1].usesPreviousResult
  /\ plan[1].executionMode = "sequential"
  /\ execution # Null
  /\ Len(execution.phases) = 1
  /\ Len(execution.phases[1].agentResults) = 1

\* C23: while the execution record is live it holds at most as many phases as
\* the plan has, each at its place in the plan; when the loop has run out it
\* holds exactly one per plan phase; and the phase count of the result, also of
\* the result orchestrateTask resolves with, is the plan's phase count.
C23_PhaseCountMatchesPlan ==
  /\ execution # Null =>
       /\ Len(execution.phases) <= Len(plan)
       /\ \A n \in 1..Len(execution.phases) : execution.phases[n].name = plan[n].name
  /\ (execution # Null /\ opc = "loop" /\ phaseIdx > Len(plan)) =>
       Len(execution.phases) = Len(plan)
  /\ result # Null => result.phases = Len(plan)
  /\ outcome.st = "resolved" => outcome.result.phases = Len(plan)

\* C23 witness: orchestrateTask has resolved on a plan of two phases.
C23_Witness ==
  /\ outcome.st = "resolved"
  /\ Len(plan) = 2
  /\ outcome.result.phases = 2

\* The handoffs the running pipeline phase should have recorded so far: one for
\* every task after the first that returned and has usesPreviousResult set,
\* from the task before it, in list order.
ExpectedHandoffs ==
  LET later == {k \in 2..NumTasks :
                  /\ taskState[k].st = "fulfilled"
                  /\ CurPhase.agentTasks[k].usesPreviousResult}
      nth(n) == CHOOSE k \in later : Cardinality({m \in later : m < k}) = n - 1
  IN [n \in 1..Cardinality(later) |->
        [type |-> "sequential_handoff",
         from |-> CurPhase.agentTasks[nth(n) - 1].agentId,
         to |-> CurPhase.agentTasks[nth(n)].agentId]]

\* C29: the 'sequential_handoff' events of a running sequential phase are
\* exactly one per returned task after the first with usesPreviousResult set,
\* each from the task immediately before it; none is recorded for the first task.
C29_HandoffFromPredecessor ==
  (opc \in {"sequential", "seqAwait"} /\ phaseExecution # Null) =>
    phaseExecution.collaborations = ExpectedHandoffs

(***************************************************************************)
(* A claim about the failure hook, checked under TaskSpec.                 *)
(***************************************************************************)

C27_NoWorkflowLeftActive ==
  (wpc \in {"resolved", "rejected"} /\ HasWorkflow) =>
    /\ Workflow.status # "active"
    /\ wfOutcome.st = "rejected" =>
         /\ Workflow.status = "failed"
         /\ Workflow.error = wfOutcome.error

\* C28: a workflow joins workflowHistory with status 'completed' and the status
\* is terminal, so every workflow of workflowHistory has status 'completed',
\* also after the write of its record failed.
C28_CompletedIsTerminal ==
  \A n \in DOMAIN workflowHistory : heap[workflowHistory[n]].status = "completed"

(***************************************************************************)
(* ProjectDetector.detectPackageManager (src/src/agents-manager.js).       *)
(***************************************************************************)

\* The files detectPackageManager asks for, and a file it never asks for.
ProjectFiles ==
  {"pnpm-lock.yaml", "yarn.lock", "package-lock.json", "poetry.lock", "Pipfile",
   "Cargo.lock", "composer.lock", "package.json"}

\* What a call returns: null, or the name of a package manager.
Manager(name) == [manager |-> name]

\* fs.pathExists(path.join(projectRoot, file))
PathExists(files, file) == file \in files

\* Mutant of detectPackageManager: yarn.lock is asked for before pnpm-lock.yaml.
DetectPackageManagerYarnFirst(files) ==
  IF PathExists(files, "yarn.lock") THEN Manager("yarn")
  ELSE IF PathExists(files, "pnpm-lock.yaml") THEN Manager("pnpm")
  ELSE IF PathExists(files, "package-lock.json") THEN Manager("npm")
  ELSE IF PathExists(files, "poetry.lock") THEN Manager("poetry")
  ELSE IF PathExists(files, "Pipfile") THEN Manager("pipenv")
  ELSE IF PathExists(files, "Cargo.lock") THEN Manager("cargo")
  ELSE IF PathExists(files, "composer.lock") THEN Manager("composer")
  ELSE Null

\* detectPackageManager, lines 1320-1337: the chain of if / else if.
DetectPackageManager(files) ==
  IF PathExists(files, "pnpm-lock.yaml") THEN Manager("pnpm")
  ELSE IF PathExists(files, "yarn.lock") THEN Manager("yarn")
  ELSE IF PathExists(files, "package-lock.json") THEN Manager("npm")
  ELSE IF PathExists(files, "poetry.lock") THEN Manager("poetry")
  ELSE IF PathExists(files, "Pipfile") THEN Manager("pipenv")
  ELSE IF PathExists(files, "Cargo.lock") THEN Manager("cargo")
  ELSE IF PathExists(files, "composer.lock") THEN Manager("composer")
  ELSE Null

\* A project root with any of the files.
PmInit == present \in SUBSET ProjectFiles /\ detected = Pending

\* detectPackageManager(projectRoot) is called and returns.
DetectPackageManagerCall ==
  /\ detected = Pending
  /\ detected' = DetectPackageManager(present)
  /\ UNCHANGED <<orchVars, wfVars, regVars, selVars, ovVars, emVars, initVars, present>>

PmNext == DetectPackageManagerCall

\* The project detector on every project root; everything else rests.
PmSpecInit ==
  OrchInit({<< >>}) /\ WfInit /\ RegInit({<< >>}) /\ SelInit /\ OvInit
    /\ PmInit /\ EmInit /\ InInit

PmSpec == PmSpecInit /\ [][PmNext]_vars

(***************************************************************************)
(* A claim about the project detector, checked under PmSpec.               *)
(***************************************************************************)

\* The lock files in the claimed order of priority, and the manager of each.
LockFiles ==
  << "pnpm-lock.yaml", "yarn.lock", "package-lock.json", "poetry.lock", "Pipfile",
     "Cargo.lock", "composer.lock" >>

ManagerOf ==
  << "pnpm", "yarn", "npm", "poetry", "pipenv", "cargo", "composer" >>

\* The places in LockFiles of the lock files that are present.
PresentLocks == {n \in DOMAIN LockFiles : LockFiles[n] \in present}

\* C24: for every combination of present files detectPackageManager returns the
\* manager of the present lock file that comes first in the order pnpm-lock.yaml,
\* yarn.lock, package-lock.json, poetry.lock, Pipfile, Cargo.lock,
\* composer.lock, and it returns null exactly when no lock file is present.
C24_FirstLockFileWins ==
  detected # Pending =>
    /\ detected = Null <=> PresentLocks = {}
    /\ PresentLocks # {} =>
         \E n \in PresentLocks :
           /\ \A m \in PresentLocks : n <= m
           /\ detected = Manager(ManagerOf[n])

\* C24 witness: with yarn.lock, pnpm-lock.yaml and Cargo.lock present the call
\* has returned 'pnpm'.
C24_Witness ==
  /\ {"yarn.lock", "pnpm-lock.yaml", "Cargo.lock"} \subseteq present
  /\ detected = Manager("pnpm")

(***************************************************************************)
(* BaseAgent.executeTask and the 'taskCompleted' event.                    *)
(***************************************************************************)

\* What listens when an agent of the team emits 'taskCompleted': the
\* orchestrator's handleAgentTaskCompleted, attached by registerAgent (line
\* 593), which emits 'agentTaskCompleted' to the orchestrator's own
\* subscribers and calls analytics.track. The subscribers are quiet, or throw
\* on a successful result, or throw on every result; or the write of
\* analytics.track fails.
Subscribers == {"quiet", "trackFails", "throwsOnSuccess", "throwsAlways"}

\* What a throwing subscriber throws.
ListenerError == "listener threw"

\* this.emit('agentTaskCompleted', ...) in handleAgentTaskCompleted: emit calls
\* the subscribers synchronously, and what one throws comes out of emit.
EmitAgentTaskCompleted(sub, success) ==
  IF sub = "throwsAlways" \/ (sub = "throwsOnSuccess" /\ success)
  THEN "throws" ELSE "returns"

\* Analytics.track (lines 490-506): the write is inside a try whose catch only
\* logs, and the promise is not awaited by the handler.
Track(sub) == "returns"

\* handleAgentTaskCompleted (lines 821-836) for a result with the success flag.
HandleAgentTaskCompleted(sub, success) ==
  IF EmitAgentTaskCompleted(sub, success) = "throws" THEN "throws" ELSE Track(sub)

\* The 'taskCompleted' event executeTask emits.
TaskCompleted(success) == [event |-> "taskCompleted", success |-> success]

\* BaseAgent.executeTask (lines 998-1023) once performTask has settled with
\* `performed`: the event emitted in the try is inside the try, so a throwing
\* listener lands in the catch, which emits again and throws.
ExecuteTask(performed, sub) ==
  IF performed = "ok"
  THEN IF HandleAgentTaskCompleted(sub, TRUE) = "throws"
       THEN [performed |-> performed,
             events |-> <<TaskCompleted(TRUE), TaskCompleted(FALSE)>>,
             out |-> ListenerError]
       ELSE [performed |-> performed, events |-> <<TaskCompleted(TRUE)>>, out |-> "ok"]
  ELSE [performed |-> performed, events |-> <<TaskCompleted(FALSE)>>,
        out |-> IF HandleAgentTaskCompleted(sub, FALSE) = "throws"
                THEN ListenerError ELSE performed]

\* performTask of the running task k settles and executeTask runs on to its end.
PerformTaskSettles(k, performed, sub) ==
  /\ k \in DOMAIN taskState
  /\ taskState[k] = Running
  /\ k \notin DOMAIN execs
  /\ execs' = (k :> ExecuteTask(performed, sub)) @@ execs
  /\ UNCHANGED <<orchVars, wfVars, regVars, selVars, ovVars, pmVars, initVars>>

\* The promise of executeTask of parallel task k settles as executeTask ended.
ExecuteTaskSettlesParallel(k) ==
  /\ k \in DOMAIN execs
  /\ ParallelSettle(k, execs[k].out)

\* The promise of executeTask of the running pipeline task settles.
ExecuteTaskSettlesSequential ==
  /\ seqPos \in DOMAIN execs
  /\ SequentialSettle(execs[seqPos].out)

\* The plans of one phase of StepPhases.
EmitPlans == { <<p>> : p \in StepPhases }

EmitNext ==
  \/ ExecuteOrchestration
  \/ ExecutePhaseParallel
  \/ \E k \in DOMAIN taskState, performed \in Outcomes, sub \in Subscribers :
       PerformTaskSettles(k, performed, sub)
  \/ \E k \in DOMAIN taskState : ExecuteTaskSettlesParallel(k)
  \/ ParallelJoin
  \/ ParallelReject
  \/ ExecutePhaseSequential
  \/ SequentialStep
  \/ ExecuteTaskSettlesSequential
  \/ SequentialDone
  \/ ValidatePhaseResult
  \/ OrchestrationReturn
  \/ CatchOrchestration
  \/ OrchestrateTaskRejects
  \/ \E writeOk \in BOOLEAN : RecordOrchestrationInsights(writeOk)

\* The orchestrator on plans of one phase, with executeTask in detail.
EmitSpecInit ==
  OrchInit(EmitPlans) /\ WfInit /\ RegInit({<< >>}) /\ SelInit /\ OvInit /\ ExtInit

EmitSpec == EmitSpecInit /\ [][EmitNext]_vars

(***************************************************************************)
(* Claims about the completion events, checked under EmitSpec.             *)
(***************************************************************************)

\* C21: a failing delivery of the completion events or a failing analytics
\* write changes no outcome: executeTask settles as performTask did, and the
\* orchestration fails for a pipeline agent only when a performTask threw.
C21_EmissionFailureHarmless ==
  /\ \A k \in DOMAIN execs : execs[k].out = execs[k].performed
  /\ (opc = "rejected" /\ outcome.error.type = "SequentialFailed") =>
       \E k \in DOMAIN execs : execs[k].performed # "ok"

\* C30: every executeTask call emits exactly one 'taskCompleted' event, and the
\* event's success flag tells whether performTask returned.
C30_OneTaskCompletedPerCall ==
  \A k \in DOMAIN execs :
    /\ Len(execs[k].events) = 1
    /\ execs[k].events[1].success = (execs[k].performed = "ok")

(***************************************************************************)
(* SubagentOrchestrator.initialize and registerCoreAgents.                 *)
(***************************************************************************)
MaxCore == 3
MaxInits == 2

\* The core agents in the order registerCoreAgents constructs them (lines
\* 562-573), by name and specialization.
CoreKinds ==
  << <<"Architect", "architecture">>, <<"Coder", "coding">>, <<"Reviewer", "code-review">>,
     <<"Tester", "testing">>, <<"Refactor", "refactoring">>, <<"Security", "security">>,
     <<"Performance", "performance">>, <<"Documentation", "documentation">>,
     <<"Deployment", "deployment">>, <<"Monitoring", "monitoring">> >>

\* How many of the core agents the model registers.
NumCore == IF MaxCore < Len(CoreKinds) THEN MaxCore ELSE Len(CoreKinds)

\* The coreAgents array of the call made at the millisecond `now`; `inst` tells
\* apart the objects of two calls.
CoreAgents(now, inst) ==
  [n \in 1..NumCore |-> BaseAgent(CoreKinds[n][1], CoreKinds[n][2], now, inst)]

\* The millisecond of the latest initialize call.
LastNow == IF initCalls = << >> THEN 1 ELSE initCalls[Len(initCalls)].now

\* registerAgent called for agent `pos` of the call's coreAgents, up to its
\* await (lines 584-588): an id the registry has throws, which rejects
\* registerCoreAgents and initialize; otherwise agent.initialize() is awaited.
EnterRegisterAgent(call, pos) ==
  IF MapHas(registeredAgents, call.agents[pos].id)
  THEN [call EXCEPT !.st = "rejected", !.pos = pos,
                    !.error = AlreadyRegistered(call.agents[pos].id)]
  ELSE [call EXCEPT !.st = "initializing", !.pos = pos]

\* initialize is called, by a caller or by orchestrateTask (line 603), at the
\* millisecond `now`: with the flag set it returns (line 541); otherwise it
\* runs into registerCoreAgents, which constructs the core agents and calls
\* registerAgent for the first.
Initialize(now) ==
  /\ Len(initCalls) < MaxInits
  /\ now \in LastNow..(LastNow + 1)
  /\ now <= MaxInits
  /\ LET c == Len(initCalls) + 1
         call == [now |-> now, agents |-> CoreAgents(now, c), st |-> "called",
                  pos |-> 0, error |-> Null]
     IN initCalls' = Append(initCalls,
          IF initialized THEN [call EXCEPT !.st = "returned"]
          ELSE EnterRegisterAgent(call, 1))
  /\ UNCHANGED <<orchVars, wfVars, regVars, selVars, ovVars, pmVars, emVars, initialized>>

\* registerAgent of call c after its await (lines 589-596): the agent is stored
\* under its id, the handlers are attached, and registerAgent returns.
CoreAgentRegistered(c) ==
  /\ initCalls[c].st = "initializing"
  /\ LET agent == initCalls[c].agents[initCalls[c].pos] IN
       /\ registeredAgents' = MapSet(registeredAgents, agent.id, agent)
       /\ listeners' = Append(listeners, agent)
  /\ initCalls' = [initCalls EXCEPT ![c].st = "registered"]
  /\ UNCHANGED <<orchVars, wfVars, selVars, ovVars, pmVars, emVars, regCalls, emitted,
                 initialized>>

\* The loop of registerCoreAgents of call c goes on (lines 575-577): the next
\* agent is handed to registerAgent, or the loop has run out and
\* loadCollaborationPatterns is awaited.
RegisterCoreAgentsNext(c) ==
  /\ initCalls[c].st = "registered"
  /\ initCalls' = [initCalls EXCEPT ![c] =
       IF initCalls[c].pos < NumCore
       THEN EnterRegisterAgent(initCalls[c], initCalls[c].pos + 1)
       ELSE [initCalls[c] EXCEPT !.st = "patterns"]]
  /\ UNCHANGED <<orchVars, wfVars, regVars, selVars, ovVars, pmVars, emVars, initialized>>

\* loadCollaborationPatterns has returned (lines 549-555): the flag is set and
\* initialize returns.
InitializeReturns(c) ==
  /\ initCalls[c].st = "patterns"
  /\ initialized' = TRUE
  /\ initCalls' = [initCalls EXCEPT ![c].st = "returned"]
  /\ UNCHANGED <<orchVars, wfVars, regVars, selVars, ovVars, pmVars, emVars>>

InitNext ==
  \/ \E now \in 1..MaxInits : Initialize(now)
  \/ \E c \in DOMAIN initCalls : CoreAgentRegistered(c)
  \/ \E c \in DOMAIN initCalls : RegisterCoreAgentsNext(c)
  \/ \E c \in DOMAIN initCalls : InitializeReturns(c)

\* A constructed orchestrator whose initialize is called, possibly again
\* before an earlier call has returned.
InitSpecInit ==
  OrchInit({<< >>}) /\ WfInit /\ RegInit({<< >>}) /\ SelInit /\ OvInit /\ ExtInit

InitSpec == InitSpecInit /\ [][InitNext]_vars

(***************************************************************************)
(* A claim about initialize, checked under InitSpec.                       *)
(***************************************************************************)

\* The registered agents with the specialization of core agent n.
RegisteredAs(n) ==
  {m \in DOMAIN registeredAgents : registeredAgents[m].value.specialization = CoreKinds[n][2]}

\* Every initialize call made has settled.
AllInitialized ==
  /\ initCalls # << >>
  /\ \A c \in DOMAIN initCalls : initCalls[c].st \in {"returned", "rejected"}

\* C26: no initialize call fails with an 'already registered' error, and when
\* all calls have settled the registry holds exactly one agent per core
\* specialization, also when a call started before an earlier one returned.
C26_CoreAgentsRegisteredOnce ==
  /\ \A c \in DOMAIN initCalls : initCalls[c].st # "rejected"
  /\ AllInitialized => \A n \in 1..NumCore : Cardinality(RegisteredAs(n)) = 1

====
